---- MODULE Spec2Model ----
(***************************************************************************)
(* PDF-to-Word converter: the layout parser (layoutParser.ts), the page    *)
(* assembly (ocrProcessor.ts, processPdfClientSide), the persistence       *)
(* helpers (conversion.ts) and the page's handler (Index.tsx).             *)
(*                                                                         *)
(* Strings are sequences of one-character strings, so that trim, join and  *)
(* toUpperCase are computed rather than assumed.                           *)
(***************************************************************************)
EXTENDS Integers, Sequences, FiniteSets, Bags, TLC

VARIABLES
    \* ---- buildDocElements, one call (layoutParser.ts) ----
    items,          \* textContent.items handed to buildDocElements
    pageHeight,     \* its pageHeight argument
    positioned,     \* result of toPositioned
    lines,          \* result of groupIntoLines
    blocks,         \* result of segmentIntoBlocks
    elements,       \* the DocElement[] being returned
    error,          \* error reported by buildDocElements ("none": no throw)
    pc,             \* position inside buildDocElements
    \* ---- handleFileSelect / processOcr / processPdfClientSide ----
    pdf,            \* the pages of the selected file
    hpc,            \* position of the running handleFileSelect
    pageNum,        \* loop variable of processPdfClientSide
    allElements,    \* allElements of processPdfClientSide
    tesseractWorker,\* "null" | "live" | "terminated"
    usedOcr,
    result,         \* OcrResult returned by processPdfClientSide, or NoResult
    conversion,     \* the row of table conversions created for this file
    isProcessing,   \* Index state
    currentStatus,  \* Index state: "null" | pending | processing | completed | failed
    extractedText,  \* Index state: NoText or a string
    errorMessage,   \* Index state: "undefined" or a message
    progress,       \* the events handed to onProgress, in order
    \* ---- the page: FileDropZone, Download, Convert Another ----
    file,           \* the File the user holds: its type, size and name
    selectedFile,   \* FileDropZone state
    sizeError,      \* FileDropZone state: "null" or a message
    currentFilename,\* Index state
    downloadClicks, \* clicks on Download .docx
    wordCalls,      \* calls of generateWordDocument
    \* ---- isHeadingText, one call (layoutParser.ts) ----
    headingText,    \* its argument text
    headingResult,  \* the boolean it returns
    headingPc,      \* "idle" | "start" | "done"
    \* ---- the process-pdf edge function, one request ----
    req,            \* the request: is its body JSON, has it fileUrl, conversionId
    bodyUsed,       \* the request's body stream has been read
    pdfFile,        \* what fetch(fileUrl) and pdf-parse give for the file
    epc,            \* position of the handler
    edgeError,      \* message of the error thrown in the try block, "" if none
    edgeRow,        \* the row of table conversions with id conversionId
    edgeUpdates,    \* the updates sent to that row, each with its outcome
    response        \* the Response returned, status 0 while there is none

layoutVars == <<items, pageHeight, positioned, lines, blocks, elements, error, pc>>
convVars == <<pdf, hpc, pageNum, allElements, tesseractWorker, usedOcr, result,
              conversion, isProcessing, currentStatus, extractedText, errorMessage,
              progress>>
pageVars == <<file, selectedFile, sizeError, currentFilename, downloadClicks,
              wordCalls>>
headingVars == <<headingText, headingResult, headingPc>>
edgeVars == <<req, bodyUsed, pdfFile, epc, edgeError, edgeRow, edgeUpdates, response>>
vars == <<items, pageHeight, positioned, lines, blocks, elements, error, pc,
          pdf, hpc, pageNum, allElements, tesseractWorker, usedOcr, result,
          conversion, isProcessing, currentStatus, extractedText, errorMessage,
          progress,
          file, selectedFile, sizeError, currentFilename, downloadClicks, wordCalls,
          headingText, headingResult, headingPc,
          req, bodyUsed, pdfFile, epc, edgeError, edgeRow, edgeUpdates, response>>

-----------------------------------------------------------------------------
(* Tuning knobs of layoutParser.ts                                         *)

ROW_TOLERANCE == 4
COL_TOLERANCE == 18
MIN_TABLE_COLS == 2
MIN_TABLE_ROWS == 2
HEADING_MAX_LEN == 80
TEXT_THRESHOLD == 30

-----------------------------------------------------------------------------
(* Strings                                                                 *)

LowerLetters == <<"a","b","c","d","e","f","g","h","i","j","k","l","m",
                  "n","o","p","q","r","s","t","u","v","w","x","y","z">>
UpperLetters == <<"A","B","C","D","E","F","G","H","I","J","K","L","M",
                  "N","O","P","Q","R","S","T","U","V","W","X","Y","Z">>

IsWhitespace(c) == c \in {" ", "\t", "\n", "\r"}

Abs(n) == IF n < 0 THEN -n ELSE n

RECURSIVE TrimStart(_)
TrimStart(s) ==
    IF s # <<>> /\ IsWhitespace(Head(s)) THEN TrimStart(Tail(s)) ELSE s

RECURSIVE TrimEnd(_)
TrimEnd(s) ==
    IF s # <<>> /\ IsWhitespace(s[Len(s)])
    THEN TrimEnd(SubSeq(s, 1, Len(s) - 1))
    ELSE s

\* String.prototype.trim
Trim(s) == TrimEnd(TrimStart(s))

ToUpperChar(c) ==
    IF \E i \in 1..26 : LowerLetters[i] = c
    THEN UpperLetters[CHOOSE i \in 1..26 : LowerLetters[i] = c]
    ELSE c

\* String.prototype.toUpperCase
ToUpperCase(s) == [i \in 1..Len(s) |-> ToUpperChar(s[i])]

\* /[A-Z]/.test(s)
HasAsciiUpper(s) == \E i \in 1..Len(s) : \E j \in 1..26 : UpperLetters[j] = s[i]

\* Array.prototype.join(sep) over strings
RECURSIVE Join(_, _)
Join(strs, sep) ==
    IF strs = <<>> THEN <<>>
    ELSE IF Len(strs) = 1 THEN strs[1]
    ELSE strs[1] \o sep \o Join(Tail(strs), sep)

RECURSIVE Flatten(_)
Flatten(ss) == IF ss = <<>> THEN <<>> ELSE Head(ss) \o Flatten(Tail(ss))

\* with the length tests made on the text as given
IsHeadingTextUntrimmedLength(text) ==
    LET t == Trim(text) IN
    /\ Len(text) > 0
    /\ Len(text) < HEADING_MAX_LEN
    /\ t = ToUpperCase(t)
    /\ HasAsciiUpper(t)

\* isHeadingText
IsHeadingText(text) ==
    LET t == Trim(text) IN
    /\ Len(t) > 0
    /\ Len(t) < HEADING_MAX_LEN
    /\ t = ToUpperCase(t)
    /\ HasAsciiUpper(t)

-----------------------------------------------------------------------------
(* Helpers of layoutParser.ts                                              *)

\* [...xs].sort((a, b) => a - b)
RECURSIVE InsertNum(_, _)
InsertNum(s, x) ==
    IF s = <<>> THEN <<x>>
    ELSE IF s[Len(s)] <= x THEN Append(s, x)
    ELSE Append(InsertNum(SubSeq(s, 1, Len(s) - 1), x), s[Len(s)])

RECURSIVE SortNum(_)
SortNum(xs) ==
    IF xs = <<>> THEN <<>>
    ELSE InsertNum(SortNum(SubSeq(xs, 1, Len(xs) - 1)), xs[Len(xs)])

\* the scan of mergeColumnBuckets over the sorted values
RECURSIVE MergeScan(_, _)
MergeScan(sorted, buckets) ==
    IF sorted = <<>> THEN buckets
    ELSE LET x == Head(sorted) IN
         IF buckets = <<>> \/ x - buckets[Len(buckets)] > COL_TOLERANCE
         THEN MergeScan(Tail(sorted), Append(buckets, x))
         ELSE MergeScan(Tail(sorted), buckets)

\* without the sort
mergeColumnBucketsUnsorted(xValues) == MergeScan(xValues, <<>>)

mergeColumnBuckets(xValues) == MergeScan(SortNum(xValues), <<>>)

\* with d <= bestDist: of two buckets equally near, the later one wins
RECURSIVE NearestFromLastWins(_, _, _, _, _)
NearestFromLastWins(x, buckets, i, best, bestDist) ==
    IF i > Len(buckets) THEN best
    ELSE LET d == Abs(x - buckets[i]) IN
         IF d <= bestDist
         THEN NearestFromLastWins(x, buckets, i + 1, i, d)
         ELSE NearestFromLastWins(x, buckets, i + 1, best, bestDist)

\* the loop of nearestBucket, i is the 1-based index being looked at
RECURSIVE NearestFrom(_, _, _, _, _)
NearestFrom(x, buckets, i, best, bestDist) ==
    IF i > Len(buckets) THEN best
    ELSE LET d == Abs(x - buckets[i]) IN
         IF d < bestDist
         THEN NearestFrom(x, buckets, i + 1, i, d)
         ELSE NearestFrom(x, buckets, i + 1, best, bestDist)

\* 1-based index of the nearest bucket
nearestBucket(x, buckets) == NearestFrom(x, buckets, 2, 1, Abs(x - buckets[1]))

-----------------------------------------------------------------------------
(* Step 1: toPositioned                                                    *)

PositionedOf(item, H) ==
    [str |-> item.str,
     x |-> item.transform[5],
     y |-> H - item.transform[6] - Abs(item.height),
     width |-> item.width,
     height |-> Abs(item.height),
     fontName |-> item.fontName]

\* markers ("type" in raw) and whitespace-only fragments are skipped
KeepsItem(raw) == ~raw.hasType /\ Trim(raw.str) # <<>>

RECURSIVE toPositioned(_, _)
toPositioned(raw, H) ==
    IF raw = <<>> THEN <<>>
    ELSE IF KeepsItem(Head(raw))
         THEN <<PositionedOf(Head(raw), H)>> \o toPositioned(Tail(raw), H)
         ELSE toPositioned(Tail(raw), H)

-----------------------------------------------------------------------------
(* Step 2: groupIntoLines                                                  *)

\* stable sorts, as Array.prototype.sort with (a, b) => a.y - b.y / a.x - b.x
RECURSIVE InsertByY(_, _)
InsertByY(s, e) ==
    IF s = <<>> THEN <<e>>
    ELSE IF s[Len(s)].y <= e.y THEN Append(s, e)
    ELSE Append(InsertByY(SubSeq(s, 1, Len(s) - 1), e), s[Len(s)])

RECURSIVE SortByY(_)
SortByY(s) ==
    IF s = <<>> THEN <<>>
    ELSE InsertByY(SortByY(SubSeq(s, 1, Len(s) - 1)), s[Len(s)])

\* an unstable variant: a run goes in front of the runs with the same x
RECURSIVE InsertByXTiesFirst(_, _)
InsertByXTiesFirst(s, e) ==
    IF s = <<>> THEN <<e>>
    ELSE IF s[Len(s)].x < e.x THEN Append(s, e)
    ELSE Append(InsertByXTiesFirst(SubSeq(s, 1, Len(s) - 1), e), s[Len(s)])

RECURSIVE InsertByX(_, _)
InsertByX(s, e) ==
    IF s = <<>> THEN <<e>>
    ELSE IF s[Len(s)].x <= e.x THEN Append(s, e)
    ELSE Append(InsertByX(SubSeq(s, 1, Len(s) - 1), e), s[Len(s)])

RECURSIVE SortByX(_)
SortByX(s) ==
    IF s = <<>> THEN <<>>
    ELSE InsertByX(SortByX(SubSeq(s, 1, Len(s) - 1)), s[Len(s)])

\* a variant in which currentY follows the last run of the line
RECURSIVE GroupScanDrifting(_, _, _, _, _)
GroupScanDrifting(sorted, i, out, currentLine, currentY) ==
    IF i > Len(sorted)
    THEN Append(out, [y |-> currentY, items |-> SortByX(currentLine)])
    ELSE LET item == sorted[i] IN
         IF Abs(item.y - currentY) <= ROW_TOLERANCE
         THEN GroupScanDrifting(sorted, i + 1, out, Append(currentLine, item), item.y)
         ELSE GroupScanDrifting(sorted, i + 1,
                        Append(out, [y |-> currentY, items |-> SortByX(currentLine)]),
                        <<item>>, item.y)

\* the for loop of groupIntoLines over sorted[i..], with the final push
RECURSIVE GroupScan(_, _, _, _, _)
GroupScan(sorted, i, out, currentLine, currentY) ==
    IF i > Len(sorted)
    THEN Append(out, [y |-> currentY, items |-> SortByX(currentLine)])
    ELSE LET item == sorted[i] IN
         IF Abs(item.y - currentY) <= ROW_TOLERANCE
         THEN GroupScan(sorted, i + 1, out, Append(currentLine, item), currentY)
         ELSE GroupScan(sorted, i + 1,
                        Append(out, [y |-> currentY, items |-> SortByX(currentLine)]),
                        <<item>>, item.y)

groupIntoLines(its) ==
    IF its = <<>> THEN <<>>
    ELSE LET sorted == SortByY(its) IN
         GroupScan(sorted, 2, <<>>, <<sorted[1]>>, sorted[1].y)

-----------------------------------------------------------------------------
(* Step 3: segmentIntoBlocks / tryExtractTable.  The two thresholds are    *)
(* parameters of the operators; the program passes its constants.          *)

LineXs(line) == [k \in 1..Len(line.items) |-> line.items[k].x]

\* lineXs.filter(x => colBuckets.some(b => |x - b| <= COL_TOLERANCE))
Matched(lineXs, colBuckets) ==
    SelectSeq(lineXs,
              LAMBDA x : \E k \in 1..Len(colBuckets) :
                            Abs(x - colBuckets[k]) <= COL_TOLERANCE)

\* line.items.length < MIN_TABLE_COLS
TooFewItemsWrongWay(line, minCols) == Len(line.items) > minCols

TooFewItems(line, minCols) == Len(line.items) < minCols

\* colBuckets.length < MIN_TABLE_COLS, on the first candidate line
TooFewBucketsUnchecked(colBuckets, minCols) == FALSE

TooFewBuckets(colBuckets, minCols) == Len(colBuckets) < minCols

\* matched.length < MIN_TABLE_COLS, on a later line
NotAligned(lineXs, colBuckets, minCols) ==
    Len(Matched(lineXs, colBuckets)) < minCols

\* the for loop of tryExtractTable from line i on; returns tableLines
RECURSIVE ExtendTable(_, _, _, _, _)
ExtendTable(ls, i, tableLines, colBuckets, minCols) ==
    IF i > Len(ls) THEN tableLines
    ELSE LET line == ls[i]
             lineXs == LineXs(line)
         IN
         IF TooFewItems(line, minCols) THEN tableLines
         ELSE IF Len(colBuckets) = 0
              THEN LET first == mergeColumnBuckets(lineXs) IN
                   IF TooFewBuckets(first, minCols) THEN tableLines
                   ELSE ExtendTable(ls, i + 1, Append(tableLines, line), first, minCols)
              ELSE IF NotAligned(lineXs, colBuckets, minCols) THEN tableLines
                   ELSE ExtendTable(ls, i + 1, Append(tableLines, line),
                                    mergeColumnBuckets(colBuckets \o lineXs), minCols)

NoTable == <<>>

\* tryExtractTable(lines, start): the table lines, or NoTable for null
tryExtractTable(ls, start, minRows, minCols) ==
    IF start > Len(ls) THEN NoTable
    ELSE LET tableLines == ExtendTable(ls, start, <<>>, <<>>, minCols) IN
         IF Len(tableLines) >= minRows THEN tableLines ELSE NoTable

\* how far segmentIntoBlocks advances i after a table block
TableAdvanceOffByOne(tableLines) == Len(tableLines) + 1

TableAdvance(tableLines) == Len(tableLines)

\* the while loop of segmentIntoBlocks from position i
RECURSIVE SegmentFrom(_, _, _, _)
SegmentFrom(ls, i, minRows, minCols) ==
    IF i > Len(ls) THEN <<>>
    ELSE LET tableLines == tryExtractTable(ls, i, minRows, minCols) IN
         IF tableLines # NoTable /\ Len(tableLines) >= minRows
         THEN <<[kind |-> "table", lines |-> tableLines]>>
              \o SegmentFrom(ls, i + TableAdvance(tableLines), minRows, minCols)
         ELSE <<[kind |-> "para", lines |-> <<ls[i]>>]>>
              \o SegmentFrom(ls, i + 1, minRows, minCols)

segmentIntoBlocksWith(ls, minRows, minCols) == SegmentFrom(ls, 1, minRows, minCols)

segmentIntoBlocksOneColumn(ls) == segmentIntoBlocksWith(ls, MIN_TABLE_ROWS, 1)

segmentIntoBlocks(ls) == segmentIntoBlocksWith(ls, MIN_TABLE_ROWS, MIN_TABLE_COLS)

-----------------------------------------------------------------------------
(* Step 4: blocks to DocElements                                           *)

\* cells[col] = item.str
AppendToCellOverwrites(cell, str) == str

\* cells[col] = cells[col] ? cells[col] + " " + item.str : item.str
AppendToCell(cell, str) == IF Len(cell) > 0 THEN cell \o <<" ">> \o str ELSE str

\* the for loop over line.items filling one row
RECURSIVE FillRow(_, _, _, _)
FillRow(its, k, cells, colBuckets) ==
    IF k > Len(its) THEN cells
    ELSE LET col == nearestBucket(its[k].x, colBuckets) IN
         FillRow(its, k + 1,
                 [cells EXCEPT ![col] = AppendToCell(cells[col], its[k].str)],
                 colBuckets)

tableBlockToElement(block) ==
    LET allXs == Flatten([r \in 1..Len(block.lines) |-> LineXs(block.lines[r])])
        colBuckets == mergeColumnBuckets(allXs)
        colCount == Len(colBuckets)
    IN [type |-> "table",
        rows |-> [r \in 1..Len(block.lines) |->
                    FillRow(block.lines[r].items, 1,
                            [c \in 1..colCount |-> <<>>], colBuckets)],
        colCount |-> colCount]

ParagraphTextVisibleSeparator(line) ==
    Trim(Join([k \in 1..Len(line.items) |-> line.items[k].str], <<"|">>))

\* line.items.map((it) => it.str).join(" ").trim()
ParagraphText(line) ==
    Trim(Join([k \in 1..Len(line.items) |-> line.items[k].str], <<" ">>))

paraBlockToElements(block) ==
    [r \in 1..Len(block.lines) |->
        LET text == ParagraphText(block.lines[r]) IN
        [type |-> "paragraph", text |-> text, isHeading |-> IsHeadingText(text)]]

\* the for loop of buildDocElements over the blocks
RECURSIVE BlocksToElements(_)
BlocksToElements(bs) ==
    IF bs = <<>> THEN <<>>
    ELSE (IF Head(bs).kind = "table"
          THEN <<tableBlockToElement(Head(bs))>>
          ELSE paraBlockToElements(Head(bs)))
         \o BlocksToElements(Tail(bs))

BuildDocElementsErrorValidating(its, H) ==
    IF H <= 0 THEN "MalformedInput" ELSE "none"

\* buildDocElements has no throw statement and validates nothing
BuildDocElementsError(its, H) == "none"

buildDocElements(its, H) ==
    LET pos == toPositioned(its, H) IN
    IF Len(pos) = 0 THEN <<>>
    ELSE BlocksToElements(segmentIntoBlocks(groupIntoLines(pos)))

-----------------------------------------------------------------------------
(* Inputs of buildDocElements: a page is a stack of rows, each row one of  *)
(* the templates below (x positions chosen around COL_TOLERANCE).          *)

MaxRows == 4

Run(str, x, dy, h) ==
    [hasType |-> FALSE, str |-> str, x |-> x, dy |-> dy, height |-> h]

Marker == [hasType |-> TRUE, str |-> <<>>, x |-> 0, dy |-> 0, height |-> 0]

RowTemplates ==
    << \* 1: a marker, a single-run title and a whitespace-only fragment
       <<Marker, Run(<<"T","O","P">>, 50, 0, 10), Run(<<" ">>, 90, 0, 10)>>,
       \* 2: two columns at 10 and 200, second run 3 units lower, height negated
       <<Run(<<"a","1">>, 10, 0, 10), Run(<<"a","2">>, 200, 3, -10)>>,
       \* 3: two columns at 0 and 200
       <<Run(<<"d","1">>, 0, 0, 10), Run(<<"d","2"," ">>, 200, 0, 10)>>,
       \* 4: two runs 18 apart (one column bucket), given right to left
       <<Run(<<"e","2">>, 28, 0, 10), Run(<<"e","1">>, 10, 0, 10)>>,
       \* 5: two columns at 28 and 58
       <<Run(<<" ","f","1">>, 28, 0, 10), Run(<<"f","2">>, 58, 0, 10)>>,
       \* 6: two columns at 10 and 40
       <<Run(<<"g","1">>, 10, 0, 10), Run(<<"g","2">>, 40, 0, 10)>>,
       \* 7: three columns at 10, 100 and 200
       <<Run(<<"h","1">>, 10, 0, 10), Run(<<"h","2">>, 100, 0, 10),
         Run(<<"H","3">>, 200, 0, 10)>> >>

PageHeights == {0, 792}

\* the raw TextItem of a template cell placed in row r (rows go down the page)
RawItem(cell, r) ==
    [hasType |-> cell.hasType,
     str |-> cell.str,
     transform |-> <<1, 0, 0, 1, cell.x, 700 - 20 * r - cell.dy>>,
     width |-> 5 * Len(cell.str),
     height |-> cell.height,
     fontName |-> "f1"]

RawRow(t, r) == [k \in 1..Len(RowTemplates[t]) |-> RawItem(RowTemplates[t][k], r)]

\* the items of a page whose rows follow the templates ts, top to bottom
RawPage(ts) == Flatten([r \in 1..Len(ts) |-> RawRow(ts[r], r)])

Templates == 1..Len(RowTemplates)

-----------------------------------------------------------------------------
(* Values a variable holds while its part of the program is not running    *)

\* null / undefined, and a present value
Null == [some |-> FALSE, v |-> <<>>]
Some(v) == [some |-> TRUE, v |-> v]

NoText == Null
NoResult == [some |-> FALSE, elements |-> <<>>, text |-> <<>>, pageCount |-> 0,
             usedOcr |-> FALSE]
NoConversion == [exists |-> FALSE, status |-> "", extracted_text |-> Null,
                 page_count |-> Null, error_message |-> Null]

LayoutIdle ==
    /\ items = <<>>
    /\ pageHeight = 0
    /\ positioned = <<>>
    /\ lines = <<>>
    /\ blocks = <<>>
    /\ elements = <<>>
    /\ error = "none"
    /\ pc = "idle"

HeadingIdle ==
    /\ headingText = <<>>
    /\ headingResult = FALSE
    /\ headingPc = "idle"

NoRequest == [json |-> FALSE, fileUrl |-> FALSE, conversionId |-> FALSE]
NoFile == [downloadOk |-> FALSE, parses |-> FALSE, text |-> <<>>, numpages |-> 0]
NoResponse == [status |-> 0, success |-> "none"]

EdgeIdle ==
    /\ req = NoRequest
    /\ bodyUsed = FALSE
    /\ pdfFile = NoFile
    /\ epc = "idle"
    /\ edgeError = ""
    /\ edgeRow = NoConversion
    /\ edgeUpdates = <<>>
    /\ response = NoResponse

NoFileGiven == [type |-> "", size |-> 0, name |-> ""]

NoSelectedFile == [some |-> FALSE, type |-> "", size |-> 0, name |-> ""]

PageIdle ==
    /\ selectedFile = NoSelectedFile
    /\ sizeError = "null"
    /\ currentFilename = ""
    /\ downloadClicks = 0
    /\ wordCalls = 0

ConvIdle ==
    /\ file = NoFileGiven
    /\ PageIdle
    /\ pdf = <<>>
    /\ hpc = "idle"
    /\ pageNum = 0
    /\ allElements = <<>>
    /\ tesseractWorker = "null"
    /\ usedOcr = FALSE
    /\ result = NoResult
    /\ conversion = NoConversion
    /\ isProcessing = FALSE
    /\ currentStatus = "null"
    /\ extractedText = NoText
    /\ errorMessage = "undefined"
    /\ progress = <<>>

-----------------------------------------------------------------------------
(* One call of buildDocElements, statement by statement                    *)

Init ==
    /\ \E n \in 0..MaxRows : \E ts \in [1..n -> Templates] : items = RawPage(ts)
    /\ pageHeight \in PageHeights
    /\ positioned = <<>>
    /\ lines = <<>>
    /\ blocks = <<>>
    /\ elements = <<>>
    /\ error = "none"
    /\ pc = "start"
    /\ ConvIdle
    /\ HeadingIdle
    /\ EdgeIdle

\* const positioned = toPositioned(items, pageHeight)
ToPositioned ==
    /\ pc = "start"
    /\ positioned' = toPositioned(items, pageHeight)
    /\ pc' = "positioned"
    /\ UNCHANGED <<items, pageHeight, lines, blocks, elements, error>>
    /\ UNCHANGED convVars
    /\ UNCHANGED pageVars
    /\ UNCHANGED headingVars
    /\ UNCHANGED edgeVars

\* if (positioned.length === 0) return []
ReturnEmpty ==
    /\ pc = "positioned"
    /\ Len(positioned) = 0
    /\ elements' = <<>>
    /\ error' = BuildDocElementsError(items, pageHeight)
    /\ pc' = "done"
    /\ UNCHANGED <<items, pageHeight, positioned, lines, blocks>>
    /\ UNCHANGED convVars
    /\ UNCHANGED pageVars
    /\ UNCHANGED headingVars
    /\ UNCHANGED edgeVars

\* const lines = groupIntoLines(positioned)
GroupIntoLines ==
    /\ pc = "positioned"
    /\ Len(positioned) # 0
    /\ lines' = groupIntoLines(positioned)
    /\ pc' = "lines"
    /\ UNCHANGED <<items, pageHeight, positioned, blocks, elements, error>>
    /\ UNCHANGED convVars
    /\ UNCHANGED pageVars
    /\ UNCHANGED headingVars
    /\ UNCHANGED edgeVars

\* const blocks = segmentIntoBlocks(lines)
SegmentIntoBlocks ==
    /\ pc = "lines"
    /\ blocks' = segmentIntoBlocks(lines)
    /\ pc' = "blocks"
    /\ UNCHANGED <<items, pageHeight, positioned, lines, elements, error>>
    /\ UNCHANGED convVars
    /\ UNCHANGED pageVars
    /\ UNCHANGED headingVars
    /\ UNCHANGED edgeVars

\* the loop over blocks, and return elements
EmitElements ==
    /\ pc = "blocks"
    /\ elements' = BlocksToElements(blocks)
    /\ error' = BuildDocElementsError(items, pageHeight)
    /\ pc' = "done"
    /\ UNCHANGED <<items, pageHeight, positioned, lines, blocks>>
    /\ UNCHANGED convVars
    /\ UNCHANGED pageVars
    /\ UNCHANGED headingVars
    /\ UNCHANGED edgeVars

Next ==
    \/ ToPositioned
    \/ ReturnEmpty
    \/ GroupIntoLines
    \/ SegmentIntoBlocks
    \/ EmitElements

Spec == Init /\ [][Next]_vars

-----------------------------------------------------------------------------
(* The same call on pages of free-standing runs: up to MaxRuns runs, in    *)
(* any input order, at x positions one COL_TOLERANCE apart and at y        *)
(* offsets less than ROW_TOLERANCE apart.  The k-th run of the input has   *)
(* the k-th letter as its text.                                            *)

MaxRuns == 4

RunXs == {10, 28, 46}

RunYs == {0, 3, 6}

GridItem(k, x, y) ==
    [hasType |-> FALSE,
     str |-> <<LowerLetters[k]>>,
     transform |-> <<1, 0, 0, 1, x, 700 - y>>,
     width |-> 5,
     height |-> 10,
     fontName |-> "f1"]

GridInit ==
    /\ \E n \in 0..MaxRuns : \E xs \in [1..n -> RunXs] : \E ys \in [1..n -> RunYs] :
          items = [k \in 1..n |-> GridItem(k, xs[k], ys[k])]
    /\ pageHeight = 792
    /\ positioned = <<>>
    /\ lines = <<>>
    /\ blocks = <<>>
    /\ elements = <<>>
    /\ error = "none"
    /\ pc = "start"
    /\ ConvIdle
    /\ HeadingIdle
    /\ EdgeIdle

GridSpec == GridInit /\ [][Next]_vars

-----------------------------------------------------------------------------
(* elementsToText                                                          *)

ElementText(el) ==
    IF el.type = "pageBreak"
    THEN <<"-","-","-"," ","P","a","g","e"," ","B","r","e","a","k"," ","-","-","-">>
    ELSE IF el.type = "paragraph" THEN el.text
    ELSE Join([r \in 1..Len(el.rows) |-> Join(el.rows[r], <<"\t">>)], <<"\n">>)

\* as the earlier version of the file joined its pages: with a blank line
elementsToTextBlankLine(els) ==
    Join([e \in 1..Len(els) |-> ElementText(els[e])], <<"\n", "\n">>)

elementsToText(els) == Join([e \in 1..Len(els) |-> ElementText(els[e])], <<"\n">>)

-----------------------------------------------------------------------------
(* processPdfClientSide (ocrProcessor.ts): the pages of a file             *)

MaxPages == 3

\* String.prototype.split("\n")
RECURSIVE SplitLines(_, _)
SplitLines(s, cur) ==
    IF \A i \in 1..Len(s) : s[i] # "\n" THEN <<cur \o s>>
    ELSE LET nl == CHOOSE i \in 1..Len(s) :
                      s[i] = "\n" /\ \A j \in 1..(i - 1) : s[j] # "\n"
         IN <<cur \o SubSeq(s, 1, nl - 1)>>
            \o SplitLines(SubSeq(s, nl + 1, Len(s)), <<>>)

\* without the filter(Boolean)
OcrLinesUnfiltered(ocrText) ==
    [k \in 1..Len(SplitLines(ocrText, <<>>)) |-> Trim(SplitLines(ocrText, <<>>)[k])]

\* ocrText.split("\n").map((l) => l.trim()).filter(Boolean)
OcrLines(ocrText) ==
    SelectSeq([k \in 1..Len(SplitLines(ocrText, <<>>)) |->
                  Trim(SplitLines(ocrText, <<>>)[k])],
              LAMBDA l : Len(l) > 0)

\* with the length test off by one
OcrParagraphLongHeading(line) ==
    [type |-> "paragraph",
     text |-> line,
     isHeading |-> /\ Len(line) > 0
                   /\ Len(line) <= 80
                   /\ line = ToUpperCase(line)
                   /\ HasAsciiUpper(line)]

\* the ParagraphElement pushed for one OCR line
OcrParagraph(line) ==
    [type |-> "paragraph",
     text |-> line,
     isHeading |-> /\ Len(line) > 0
                   /\ Len(line) < 80
                   /\ line = ToUpperCase(line)
                   /\ HasAsciiUpper(line)]

OcrParagraphs(ocrText) ==
    [k \in 1..Len(OcrLines(ocrText)) |-> OcrParagraph(OcrLines(ocrText)[k])]

\* as the earlier version of the file did: join(" ")
EmbeddedRawJoinedWithSpace(its) ==
    Trim(Join([k \in 1..Len(its) |->
                  IF its[k].hasType THEN <<>> ELSE its[k].str], <<" ">>))

\* items.filter(it => !("type" in it)).map(it => it.str).join("").trim()
EmbeddedRaw(its) ==
    Trim(Flatten([k \in 1..Len(its) |->
                     IF its[k].hasType THEN <<>> ELSE its[k].str]))

IsDigital(page) == Len(EmbeddedRaw(page.items)) >= TEXT_THRESHOLD

\* the elements one page contributes to allElements
PageElements(page) ==
    IF IsDigital(page)
    THEN buildDocElements(page.items, page.pageHeight)
    ELSE OcrParagraphs(page.ocrText)

PageBreak == [type |-> "pageBreak"]

\* if (pageNum > 1) allElements.push({ type: "pageBreak" })
PageBreakBeforeEveryPage(n) == IF n >= 1 THEN <<PageBreak>> ELSE <<>>

PageBreakBefore(n) == IF n > 1 THEN <<PageBreak>> ELSE <<>>

Long == [i \in 1..30 |-> "x"]

PageKinds ==
    << \* 1: digital, one line of one long run and below it a run of
       \*    whitespace only: a paragraph
       [items |-> <<RawItem(Run(Long, 10, 0, 10), 1),
                    RawItem(Run(<<" ">>, 10, 0, 10), 2)>>,
        pageHeight |-> 792, ocrText |-> <<>>],
       \* 2: digital, a title line and two aligned rows: a heading and a table
       [items |-> RawRow(1, 1)
                  \o <<RawItem(Run(Long, 10, 0, 10), 2),
                       RawItem(Run(<<"b","2">>, 200, 0, 10), 2)>>
                  \o RawRow(2, 3),
        pageHeight |-> 792, ocrText |-> <<>>],
       \* 3: too little embedded text, OCR finds a heading and a body line
       [items |-> RawRow(2, 1),
        pageHeight |-> 792,
        ocrText |-> <<" ","H","E","A","D"," ","\n","\n","b","o","d","y","\n">>],
       \* 4: a blank scanned page, OCR finds nothing
       [items |-> <<>>, pageHeight |-> 792, ocrText |-> <<"\n"," ","\n">>],
       \* 5: a marker and two runs of 15 and 14 letters inside whitespace, one
       \*    short of the threshold; OCR finds upper-case lines of 79 and 80
       \*    letters
       [items |-> <<RawItem(Marker, 1),
                    RawItem(Run(<<" ">> \o SubSeq(Long, 1, 15), 10, 0, 10), 1),
                    RawItem(Run(SubSeq(Long, 1, 14) \o <<" ">>, 200, 0, 10), 1)>>,
        pageHeight |-> 792,
        ocrText |-> [i \in 1..79 |-> "X"] \o <<"\n", "\t">>
                    \o [i \in 1..80 |-> "X"] \o <<" ">>],
       \* 6: a scanned page on which the words "--- Page Break ---" are
       \*    printed on a line of their own
       [items |-> <<>>, pageHeight |-> 792,
        ocrText |-> <<"-","-","-"," ","P","a","g","e"," ","B","r","e","a","k",
                      " ","-","-","-","\n">>] >>

-----------------------------------------------------------------------------
(* conversion.ts: the table of conversions                                 *)

\* createConversion inserts a row with status "pending"
NewConversion ==
    [exists |-> TRUE, status |-> "pending", extracted_text |-> Null,
     page_count |-> Null, error_message |-> Null]

\* supabase update(update).eq("id", id): the fields the update names are set
ApplyUpdate(row, update) ==
    [row EXCEPT
        !.status = update.status,
        !.extracted_text = IF update.extracted_text.some
                           THEN update.extracted_text ELSE @,
        !.page_count = IF update.page_count.some THEN update.page_count ELSE @,
        !.error_message = IF update.error_message.some
                          THEN update.error_message ELSE @]

\* processOcr, first call: updateConversion(conversionId, { status: "processing" })
ProcessingUpdateMarksCompleted ==
    [status |-> "completed", extracted_text |-> Null, page_count |-> Null,
     error_message |-> Null]

ProcessingUpdate ==
    [status |-> "processing", extracted_text |-> Null, page_count |-> Null,
     error_message |-> Null]

\* processOcr, second call: status completed with the text and the page count
CompletedUpdate(res) ==
    [status |-> "completed", extracted_text |-> Some(res.text),
     page_count |-> Some(res.pageCount), error_message |-> Null]

-----------------------------------------------------------------------------
(* The progress events of processPdfClientSide                             *)

\* onProgress({ page: 0, totalPages: 0, percentage: 0, stage: "loading" })
LoadingEvent == [page |-> 0, totalPages |-> 0, percentage |-> 0, stage |-> "loading"]

\* with the pages still to read in the numerator
BasePercentageRemaining(n, total) == (200 * (total - n) + total) \div (2 * total)

\* Math.round(((pageNum - 1) / totalPages) * 100): the nearest integer, a
\* half rounded up
BasePercentage(n, total) == (200 * (n - 1) + total) \div (2 * total)

ExtractingEvent(n, total) ==
    [page |-> n, totalPages |-> total, percentage |-> BasePercentage(n, total),
     stage |-> "extracting"]

OcrEvent(n, total) ==
    [page |-> n, totalPages |-> total, percentage |-> BasePercentage(n, total),
     stage |-> "ocr"]

DoneEvent(total) ==
    [page |-> total, totalPages |-> total, percentage |-> 100, stage |-> "done"]

-----------------------------------------------------------------------------
(* Index.tsx handleFileSelect, through processOcr and processPdfClientSide *)

MAX_FILE_SIZE == 20 * 1024 * 1024

\* a PDF of exactly the largest size allowed
PdfFile == [type |-> "application/pdf", size |-> MAX_FILE_SIZE, name |-> "a.pdf"]

ConvInit ==
    /\ LayoutIdle
    /\ HeadingIdle
    /\ EdgeIdle
    /\ \E n \in 1..MaxPages : \E ks \in [1..n -> 1..Len(PageKinds)] :
          pdf = [k \in 1..n |-> PageKinds[ks[k]]]
    /\ file = PdfFile
    /\ PageIdle
    /\ hpc = "idle"
    /\ pageNum = 0
    /\ allElements = <<>>
    /\ tesseractWorker = "null"
    /\ usedOcr = FALSE
    /\ result = NoResult
    /\ conversion = NoConversion
    /\ isProcessing = FALSE
    /\ currentStatus = "null"
    /\ extractedText = NoText
    /\ errorMessage = "undefined"
    /\ progress = <<>>

\* without the finally block
FailKeepsProcessing(msg) ==
    /\ currentStatus' = "failed"
    /\ errorMessage' = msg
    /\ isProcessing' = isProcessing
    /\ hpc' = "done"

\* catch (error) { setCurrentStatus("failed"); setErrorMessage(msg) }
\* finally { setIsProcessing(false) }
Fail(msg) ==
    /\ currentStatus' = "failed"
    /\ errorMessage' = msg
    /\ isProcessing' = FALSE
    /\ hpc' = "done"

\* as if the limit were one byte higher
TooLargeAboveNextByte(f) == f.size > MAX_FILE_SIZE + 1

\* file.size > MAX_FILE_SIZE
TooLarge(f) == f.size > MAX_FILE_SIZE

\* no call of handleFileSelect is between its first await and its end
NoCallRunning == hpc \in {"idle", "returned", "done"}

\* the locals of a call of processOcr and processPdfClientSide that begins
FreshCall ==
    /\ pageNum' = 0
    /\ allElements' = <<>>
    /\ tesseractWorker' = "null"
    /\ usedOcr' = FALSE
    /\ result' = NoResult
    /\ conversion' = NoConversion
    /\ progress' = <<>>

\* handleFileSelect(f) up to its first await, or to its early return
StartConversion(f) ==
    IF TooLarge(f)
    THEN /\ hpc' = "returned"
         /\ UNCHANGED <<isProcessing, currentStatus, currentFilename,
                        extractedText, errorMessage, pageNum, allElements,
                        tesseractWorker, usedOcr, result, conversion, progress>>
    ELSE /\ isProcessing' = TRUE
         /\ currentStatus' = "pending"
         /\ currentFilename' = f.name
         /\ extractedText' = NoText
         /\ errorMessage' = "undefined"
         /\ hpc' = "upload"
         /\ FreshCall

\* handleFileSelect called with the file; its only caller, FileDropZone, is
\* rendered while the page is idle
HandleFileSelect ==
    /\ NoCallRunning
    /\ currentStatus = "null"
    /\ StartConversion(file)
    /\ UNCHANGED <<pdf, file, selectedFile, sizeError, downloadClicks, wordCalls>>
    /\ UNCHANGED layoutVars
    /\ UNCHANGED headingVars
    /\ UNCHANGED edgeVars

\* await uploadPdf(file)
UploadPdf ==
    /\ hpc = "upload"
    /\ \E ok \in BOOLEAN :
          IF ok
          THEN /\ hpc' = "create"
               /\ UNCHANGED <<isProcessing, currentStatus, errorMessage>>
          ELSE Fail("Upload failed")
    /\ UNCHANGED <<pdf, pageNum, allElements, tesseractWorker, usedOcr, result,
                   conversion, extractedText>>
    /\ UNCHANGED progress
    /\ UNCHANGED layoutVars
    /\ UNCHANGED pageVars
    /\ UNCHANGED headingVars
    /\ UNCHANGED edgeVars

\* await createConversion(...); setCurrentStatus("processing")
CreateConversion ==
    /\ hpc = "create"
    /\ \E ok \in BOOLEAN :
          IF ok
          THEN /\ conversion' = NewConversion
               /\ currentStatus' = "processing"
               /\ hpc' = "markProcessing"
               /\ UNCHANGED <<isProcessing, errorMessage>>
          ELSE /\ Fail("Failed to create conversion")
               /\ UNCHANGED conversion
    /\ UNCHANGED <<pdf, pageNum, allElements, tesseractWorker, usedOcr, result,
                   extractedText>>
    /\ UNCHANGED progress
    /\ UNCHANGED layoutVars
    /\ UNCHANGED pageVars
    /\ UNCHANGED headingVars
    /\ UNCHANGED edgeVars

\* processOcr: await updateConversion(conversionId, { status: "processing" })
MarkProcessing ==
    /\ hpc = "markProcessing"
    /\ \E ok \in BOOLEAN :
          IF ok
          THEN /\ conversion' = ApplyUpdate(conversion, ProcessingUpdate)
               /\ hpc' = "load"
               /\ UNCHANGED <<isProcessing, currentStatus, errorMessage>>
          ELSE /\ Fail("Failed to update conversion")
               /\ UNCHANGED conversion
    /\ UNCHANGED <<pdf, pageNum, allElements, tesseractWorker, usedOcr, result,
                   extractedText>>
    /\ UNCHANGED progress
    /\ UNCHANGED layoutVars
    /\ UNCHANGED pageVars
    /\ UNCHANGED headingVars
    /\ UNCHANGED edgeVars

\* processPdfClientSide: the loading event, file.arrayBuffer(), getDocument,
\* the loop's first test
LoadDocument ==
    /\ hpc = "load"
    /\ \E ok \in BOOLEAN :
          IF ok
          THEN /\ pageNum' = 1
               /\ hpc' = "page"
               /\ UNCHANGED <<isProcessing, currentStatus, errorMessage>>
          ELSE /\ Fail("Invalid PDF structure")
               /\ UNCHANGED pageNum
    /\ UNCHANGED <<pdf, allElements, tesseractWorker, usedOcr, result,
                   conversion, extractedText>>
    /\ progress' = Append(progress, LoadingEvent)
    /\ UNCHANGED layoutVars
    /\ UNCHANGED pageVars
    /\ UNCHANGED headingVars
    /\ UNCHANGED edgeVars

\* what follows the body of the loop for page n
AfterPage(n) == IF n < Len(pdf) THEN "page" ELSE "finish"

\* one pass of the loop up to the classification of the page: the extracting
\* event, the page break, getPage, getTextContent, and for a digital page
\* buildDocElements
ExtractPage ==
    /\ hpc = "page"
    /\ \E ok \in BOOLEAN :
          IF ok
          THEN /\ IF IsDigital(pdf[pageNum])
                  THEN /\ allElements' = allElements \o PageBreakBefore(pageNum)
                                            \o PageElements(pdf[pageNum])
                       /\ pageNum' = pageNum + 1
                       /\ hpc' = AfterPage(pageNum)
                       /\ UNCHANGED usedOcr
                  ELSE /\ allElements' = allElements \o PageBreakBefore(pageNum)
                       /\ usedOcr' = TRUE
                       /\ hpc' = IF tesseractWorker = "null"
                                 THEN "createWorker" ELSE "recognize"
                       /\ UNCHANGED pageNum
               /\ UNCHANGED <<isProcessing, currentStatus, errorMessage>>
          ELSE /\ Fail("Failed to read page")
               /\ allElements' = allElements \o PageBreakBefore(pageNum)
               /\ UNCHANGED <<pageNum, usedOcr>>
    /\ UNCHANGED <<pdf, tesseractWorker, result, conversion, extractedText>>
    /\ progress' = Append(progress, ExtractingEvent(pageNum, Len(pdf)))
    /\ UNCHANGED layoutVars
    /\ UNCHANGED pageVars
    /\ UNCHANGED headingVars
    /\ UNCHANGED edgeVars

\* tesseractWorker = await createWorker("eng", ...)
CreateWorker ==
    /\ hpc = "createWorker"
    /\ \E ok \in BOOLEAN :
          IF ok
          THEN /\ tesseractWorker' = "live"
               /\ hpc' = "recognize"
               /\ UNCHANGED <<isProcessing, currentStatus, errorMessage>>
          ELSE /\ Fail("Failed to start OCR")
               /\ UNCHANGED tesseractWorker
    /\ UNCHANGED <<pdf, pageNum, allElements, usedOcr, result, conversion,
                   extractedText>>
    /\ UNCHANGED progress
    /\ UNCHANGED layoutVars
    /\ UNCHANGED pageVars
    /\ UNCHANGED headingVars
    /\ UNCHANGED edgeVars

\* the ocr event, page.render, tesseractWorker.recognize, the OCR lines
\* pushed as paragraphs
RecognizePage ==
    /\ hpc = "recognize"
    /\ \E ok \in BOOLEAN :
          IF ok
          THEN /\ allElements' = allElements \o PageElements(pdf[pageNum])
               /\ pageNum' = pageNum + 1
               /\ hpc' = AfterPage(pageNum)
               /\ UNCHANGED <<isProcessing, currentStatus, errorMessage>>
          ELSE /\ Fail("OCR failed")
               /\ UNCHANGED <<allElements, pageNum>>
    /\ UNCHANGED <<pdf, tesseractWorker, usedOcr, result, conversion,
                   extractedText>>
    /\ progress' = Append(progress, OcrEvent(pageNum, Len(pdf)))
    /\ UNCHANGED layoutVars
    /\ UNCHANGED pageVars
    /\ UNCHANGED headingVars
    /\ UNCHANGED edgeVars

\* after the loop: terminate the worker, the done event, build the text,
\* return the result
FinishDocument ==
    /\ hpc = "finish"
    /\ \E ok \in BOOLEAN :
          IF ok \/ tesseractWorker # "live"
          THEN /\ tesseractWorker' = IF tesseractWorker = "live"
                                     THEN "terminated" ELSE tesseractWorker
               /\ result' = [some |-> TRUE,
                             elements |-> allElements,
                             text |-> elementsToText(allElements),
                             pageCount |-> Len(pdf),
                             usedOcr |-> usedOcr]
               /\ progress' = Append(progress, DoneEvent(Len(pdf)))
               /\ hpc' = "save"
               /\ UNCHANGED <<isProcessing, currentStatus, errorMessage>>
          ELSE /\ Fail("Failed to stop OCR")
               /\ UNCHANGED <<tesseractWorker, result, progress>>
    /\ UNCHANGED <<pdf, pageNum, allElements, usedOcr, conversion, extractedText>>
    /\ UNCHANGED layoutVars
    /\ UNCHANGED pageVars
    /\ UNCHANGED headingVars
    /\ UNCHANGED edgeVars

\* processOcr: the second updateConversion; then handleFileSelect's
\* setCurrentStatus("completed"), setExtractedText(result.text), finally
SaveCompleted ==
    /\ hpc = "save"
    /\ \E ok \in BOOLEAN :
          IF ok
          THEN /\ conversion' = ApplyUpdate(conversion, CompletedUpdate(result))
               /\ currentStatus' = "completed"
               /\ extractedText' = Some(result.text)
               /\ isProcessing' = FALSE
               /\ hpc' = "done"
               /\ UNCHANGED errorMessage
          ELSE /\ Fail("Failed to update conversion")
               /\ UNCHANGED <<conversion, extractedText>>
    /\ UNCHANGED <<pdf, pageNum, allElements, tesseractWorker, usedOcr, result>>
    /\ UNCHANGED progress
    /\ UNCHANGED layoutVars
    /\ UNCHANGED pageVars
    /\ UNCHANGED headingVars
    /\ UNCHANGED edgeVars

\* an awaited call of the running handleFileSelect settles
Settle ==
    \/ UploadPdf
    \/ CreateConversion
    \/ MarkProcessing
    \/ LoadDocument
    \/ ExtractPage
    \/ CreateWorker
    \/ RecognizePage
    \/ FinishDocument
    \/ SaveCompleted

ConvNext ==
    \/ HandleFileSelect
    \/ Settle

ConvSpec == ConvInit /\ [][ConvNext]_vars

-----------------------------------------------------------------------------
(* The page: FileDropZone, Download .docx, Convert Another / Try Again     *)

MaxClicks == 2

FileTypes == {"application/pdf", "image/png"}

FileSizes == {1024, MAX_FILE_SIZE, MAX_FILE_SIZE + 1}

Files == {[type |-> t, size |-> z, name |-> "a.pdf"] : t \in FileTypes, z \in FileSizes}

\* one-page files: digital, scanned with text, scanned and blank
PageFiles == {<<PageKinds[1]>>, <<PageKinds[3]>>, <<PageKinds[4]>>}

Selected(f) == [some |-> TRUE, type |-> f.type, size |-> f.size, name |-> f.name]

PageInit ==
    /\ LayoutIdle
    /\ HeadingIdle
    /\ EdgeIdle
    /\ pdf \in PageFiles
    /\ file \in Files
    /\ PageIdle
    /\ hpc = "idle"
    /\ pageNum = 0
    /\ allElements = <<>>
    /\ tesseractWorker = "null"
    /\ usedOcr = FALSE
    /\ result = NoResult
    /\ conversion = NoConversion
    /\ isProcessing = FALSE
    /\ currentStatus = "null"
    /\ extractedText = NoText
    /\ errorMessage = "undefined"
    /\ progress = <<>>

\* FileDropZone validateAndSelect(file), from a drop or from the file input;
\* the drop target is rendered while the page is idle and no file is selected
ValidateAndSelect ==
    /\ NoCallRunning
    /\ currentStatus = "null"
    /\ selectedFile = NoSelectedFile
    /\ IF file.type # "application/pdf"
       THEN /\ sizeError' = "Only PDF files are supported."
            /\ UNCHANGED <<selectedFile, currentFilename>>
            /\ UNCHANGED <<hpc, pageNum, allElements, tesseractWorker, usedOcr,
                           result, conversion, isProcessing, currentStatus,
                           extractedText, errorMessage, progress>>
       ELSE IF TooLarge(file)
       THEN /\ sizeError' = "File is too large. Maximum is 20 MB."
            /\ UNCHANGED <<selectedFile, currentFilename>>
            /\ UNCHANGED <<hpc, pageNum, allElements, tesseractWorker, usedOcr,
                           result, conversion, isProcessing, currentStatus,
                           extractedText, errorMessage, progress>>
       ELSE /\ sizeError' = "null"
            /\ selectedFile' = Selected(file)
            /\ StartConversion(file)
    /\ UNCHANGED <<pdf, file, downloadClicks, wordCalls>>
    /\ UNCHANGED layoutVars
    /\ UNCHANGED headingVars
    /\ UNCHANGED edgeVars

\* handleReset, from Convert Another or Try Again; the page becomes idle and
\* FileDropZone is mounted anew, with its initial state
HandleReset ==
    /\ currentStatus \in {"completed", "failed"}
    /\ currentStatus' = "null"
    /\ currentFilename' = ""
    /\ extractedText' = NoText
    /\ errorMessage' = "undefined"
    /\ selectedFile' = NoSelectedFile
    /\ sizeError' = "null"
    /\ UNCHANGED <<pdf, hpc, pageNum, allElements, tesseractWorker, usedOcr,
                   result, conversion, isProcessing, progress>>
    /\ UNCHANGED <<file, downloadClicks, wordCalls>>
    /\ UNCHANGED layoutVars
    /\ UNCHANGED headingVars
    /\ UNCHANGED edgeVars

\* if (extractedText && currentFilename): the empty string is falsy
DownloadGuard ==
    /\ extractedText.some
    /\ Len(extractedText.v) > 0
    /\ currentFilename # ""

\* handleDownload, from Download .docx, rendered while status is completed
HandleDownload ==
    /\ currentStatus = "completed"
    /\ downloadClicks < MaxClicks
    /\ downloadClicks' = downloadClicks + 1
    /\ wordCalls' = IF DownloadGuard THEN wordCalls + 1 ELSE wordCalls
    /\ UNCHANGED convVars
    /\ UNCHANGED <<file, selectedFile, sizeError, currentFilename>>
    /\ UNCHANGED layoutVars
    /\ UNCHANGED headingVars
    /\ UNCHANGED edgeVars

PageNext ==
    \/ ValidateAndSelect
    \/ HandleFileSelect
    \/ Settle
    \/ HandleReset
    \/ HandleDownload

PageSpec == PageInit /\ [][PageNext]_vars

\* every awaited call settles
PageLive == PageSpec /\ WF_vars(Settle)

-----------------------------------------------------------------------------
(* Properties of the page assembly and of the conversion record            *)

IsPageBreak(el) == el.type = "pageBreak"

CountPageBreaks(els) == Cardinality({e \in 1..Len(els) : IsPageBreak(els[e])})

\* C3 as claimed: the assembled list of an N-page document holds exactly
\* N - 1 PageBreaks, none of them first or last, whatever the pages yield.
C3_PageBreaksNeverFirstOrLast ==
    result.some =>
        /\ CountPageBreaks(result.elements) = Len(pdf) - 1
        /\ \A e \in 1..Len(result.elements) :
              IsPageBreak(result.elements[e]) =>
                  e # 1 /\ e # Len(result.elements)

\* C3 as amended: exactly N - 1 PageBreaks; the list begins with a PageBreak
\* exactly when N >= 2 and the first page yields no element, and ends with
\* one exactly when N >= 2 and the last page yields no element.
C3_PageBreaksBetweenPages ==
    result.some =>
        LET els == result.elements
            N == Len(pdf)
        IN /\ CountPageBreaks(els) = N - 1
           /\ N = 1 => \A e \in 1..Len(els) : ~IsPageBreak(els[e])
           /\ N >= 2 =>
                 /\ Len(els) >= 1
                 /\ IsPageBreak(els[1]) <=> PageElements(pdf[1]) = <<>>
                 /\ IsPageBreak(els[Len(els)]) <=> PageElements(pdf[N]) = <<>>

\* three pages assembled, the first of them blank: two PageBreaks, one first
C3_Witness ==
    /\ result.some
    /\ Len(pdf) = 3
    /\ PageElements(pdf[1]) = <<>>
    /\ PageElements(pdf[3]) # <<>>
    /\ CountPageBreaks(result.elements) = 2
    /\ IsPageBreak(result.elements[1])

\* C6 as claimed: a conversion that failed after its record was created ends
\* marked as failed with the message recorded; it is not left pending or
\* processing.
C6_FailedConversionMarkedFailed ==
    (hpc = "done" /\ errorMessage # "undefined" /\ conversion.exists) =>
        /\ currentStatus = "failed"
        /\ conversion.status = "failed"
        /\ conversion.error_message.some

\* the failures of processPdfClientSide: extraction or OCR of a page
ExtractionErrors ==
    {"Invalid PDF structure", "Failed to read page", "Failed to start OCR",
     "OCR failed", "Failed to stop OCR"}

AllPagesProcessed == result.some /\ pageNum = Len(pdf) + 1

\* C7: when extraction or OCR fails, no extracted_text and no page_count are
\* in the record and it is not completed; a record holds the text of all
\* pages or none, and is completed only with it.
C7_AllPagesOrNothing ==
    /\ (hpc = "done" /\ errorMessage \in ExtractionErrors) =>
          /\ ~conversion.extracted_text.some
          /\ ~conversion.page_count.some
          /\ conversion.status # "completed"
    /\ conversion.extracted_text.some =>
          /\ AllPagesProcessed
          /\ conversion.extracted_text.v = result.text
          /\ conversion.page_count = Some(Len(pdf))
          /\ conversion.status = "completed"
    /\ conversion.status = "completed" =>
          AllPagesProcessed /\ conversion.extracted_text.some

\* OCR fails on the second page after the first page gave elements
C7_Witness ==
    /\ hpc = "done"
    /\ errorMessage = "OCR failed"
    /\ pageNum = 2
    /\ \E e \in 1..Len(allElements) : ~IsPageBreak(allElements[e])
    /\ conversion.status = "processing"

-----------------------------------------------------------------------------
(* Properties of the layout parser                                         *)

BlockLines(bs) == Flatten([b \in 1..Len(bs) |-> bs[b].lines])

Segmented == pc \in {"blocks", "done"}

\* C1 (coverage): the lines of the blocks returned by segmentIntoBlocks,
\* concatenated in block order, are exactly the input line sequence: no line
\* is dropped, duplicated or reordered.
C1_Coverage == Segmented => BlockLines(blocks) = lines

\* a segmentation with a table block followed by a paragraph block
C1_Witness ==
    /\ Segmented
    /\ \E b \in 1..Len(blocks) - 1 :
          blocks[b].kind = "table" /\ blocks[b + 1].kind = "para"
    /\ Len(lines) = MaxRows

IsTable(el) == el.type = "table"

\* C2 (table shape): every Table emitted by buildDocElements has
\* colCount >= MIN_TABLE_COLS, at least MIN_TABLE_ROWS rows, and every row
\* has exactly colCount cells.
C2_TableShape ==
    pc = "done" =>
        \A e \in 1..Len(elements) :
            IsTable(elements[e]) =>
                /\ elements[e].colCount >= MIN_TABLE_COLS
                /\ Len(elements[e].rows) >= MIN_TABLE_ROWS
                /\ \A r \in 1..Len(elements[e].rows) :
                      Len(elements[e].rows[r]) = elements[e].colCount

\* a three-column table of more than two rows has been emitted
C2_Witness ==
    /\ pc = "done"
    /\ \E e \in 1..Len(elements) :
          /\ IsTable(elements[e])
          /\ elements[e].colCount = 3
          /\ Len(elements[e].rows) > MIN_TABLE_ROWS

-----------------------------------------------------------------------------
(* Thresholds as parameters                                                *)

\* the program's thresholds, and each of them raised by one
Settings ==
    (MIN_TABLE_ROWS..(MIN_TABLE_ROWS + 1)) \X (MIN_TABLE_COLS..(MIN_TABLE_COLS + 1))

\* setting t raises one of the thresholds of s and lowers neither
Raises(s, t) == s[1] <= t[1] /\ s[2] <= t[2] /\ s # t

\* the positions (in the line sequence) of the lines inside table blocks
RECURSIVE TableIndicesFrom(_, _)
TableIndicesFrom(bs, offset) ==
    IF bs = <<>> THEN {}
    ELSE (IF Head(bs).kind = "table"
          THEN (offset + 1)..(offset + Len(Head(bs).lines))
          ELSE {})
         \cup TableIndicesFrom(Tail(bs), offset + Len(Head(bs).lines))

TableIndices(bs) == TableIndicesFrom(bs, 0)

\* the positions of the first lines of the table blocks
RECURSIVE TableStartsFrom(_, _)
TableStartsFrom(bs, offset) ==
    IF bs = <<>> THEN {}
    ELSE (IF Head(bs).kind = "table" THEN {offset + 1} ELSE {})
         \cup TableStartsFrom(Tail(bs), offset + Len(Head(bs).lines))

TableStarts(bs) == TableStartsFrom(bs, 0)

SegmentUnder(s) == segmentIntoBlocksWith(lines, s[1], s[2])

\* C4 as claimed: every line in a table block under the raised setting is in
\* a table block under the original setting.
C4_RaisedTableLinesWereTableLines ==
    pc = "lines" =>
        LET tableLines == [s \in Settings |-> TableIndices(SegmentUnder(s))] IN
        \A s \in Settings : \A t \in Settings :
            Raises(s, t) => tableLines[t] \subseteq tableLines[s]

\* C4 as amended: every table block found under the raised setting begins at
\* a line that is in a table block under the original setting; in particular
\* a line sequence without tables has none under a raised setting.
C4_RaisedTablesStartInTables ==
    pc = "lines" =>
        LET segmented == [s \in Settings |-> SegmentUnder(s)]
            tableLines == [s \in Settings |-> TableIndices(segmented[s])]
            tableStarts == [s \in Settings |-> TableStarts(segmented[s])]
        IN \A s \in Settings : \A t \in Settings :
              Raises(s, t) =>
                  /\ tableStarts[t] \subseteq tableLines[s]
                  /\ tableLines[s] = {} => tableLines[t] = {}

\* raising MIN_TABLE_COLS from the program's 2 to 3 keeps the rows of a table
\* and turns its other rows into paragraphs
C4_Witness ==
    /\ pc = "lines"
    /\ TableIndices(SegmentUnder(<<2, 3>>)) # {}
    /\ TableIndices(SegmentUnder(<<2, 3>>)) # TableIndices(SegmentUnder(<<2, 2>>))
    /\ TableStarts(SegmentUnder(<<2, 3>>)) \subseteq TableIndices(SegmentUnder(<<2, 2>>))

-----------------------------------------------------------------------------

\* C5 as claimed: buildDocElements reports MalformedInput exactly when
\* page_height is not positive.
C5_MalformedInputOnBadPageHeight ==
    pc = "done" => (error = "MalformedInput" <=> pageHeight <= 0)

\* C5 as amended: buildDocElements reports no error on any input; a
\* page_height that is not positive is accepted and the page's elements are
\* emitted all the same.
C5_NoErrorOnAnyPageHeight ==
    pc = "done" =>
        /\ error = "none"
        /\ Len(positioned) > 0 => Len(elements) > 0

\* a page of height 0 has been turned into a table
C5_Witness ==
    /\ pc = "done"
    /\ pageHeight <= 0
    /\ error = "none"
    /\ \E e \in 1..Len(elements) : elements[e].type = "table"

-----------------------------------------------------------------------------

\* two lines of two runs each, the first pair more than COL_TOLERANCE apart
TwoByTwo ==
    /\ Len(lines) = 2
    /\ Len(lines[1].items) = 2
    /\ Len(lines[2].items) = 2
    /\ lines[1].items[2].x - lines[1].items[1].x > COL_TOLERANCE

\* the second pair aligns with the first within COL_TOLERANCE
PairsAlign ==
    /\ Abs(lines[2].items[1].x - lines[1].items[1].x) <= COL_TOLERANCE
    /\ Abs(lines[2].items[2].x - lines[1].items[2].x) <= COL_TOLERANCE

GridTable ==
    [type |-> "table",
     rows |-> <<<<lines[1].items[1].str, lines[1].items[2].str>>,
                <<lines[2].items[1].str, lines[2].items[2].str>>>>,
     colCount |-> 2]

\* C8, first half: an aligned 2 x 2 grid yields exactly one Table with
\* colCount 2 and the four texts in their cells.
C8_AlignedGridIsTable ==
    (pc = "done" /\ TwoByTwo /\ PairsAlign) => elements = <<GridTable>>

\* C8, second half: when the second pair does not align the two lines are
\* emitted as two paragraphs.
C8_UnalignedGridIsParagraphs ==
    (pc = "done" /\ TwoByTwo /\ ~PairsAlign) =>
        /\ Len(elements) = 2
        /\ \A e \in 1..2 :
              /\ elements[e].type = "paragraph"
              /\ elements[e].text = ParagraphText(lines[e])

\* C8 as claimed: both halves.
C8_TwoByTwoGrid == C8_AlignedGridIsTable /\ C8_UnalignedGridIsParagraphs

-----------------------------------------------------------------------------

ShortLine(i) == Len(lines[i].items) < MIN_TABLE_COLS

\* C9: a line with fewer than MIN_TABLE_COLS runs is never a row of a table
\* block; it is a paragraph block of its own, and the elements follow the
\* blocks (hence the lines) top to bottom, one element per block.
C9_ShortLineIsParagraph ==
    /\ Segmented =>
          /\ \A b \in 1..Len(blocks) :
                blocks[b].kind = "table" =>
                    \A r \in 1..Len(blocks[b].lines) :
                        Len(blocks[b].lines[r].items) >= MIN_TABLE_COLS
          /\ \A i \in 1..Len(lines) :
                ShortLine(i) =>
                    /\ i \notin TableIndices(blocks)
                    /\ \E b \in 1..Len(blocks) :
                          blocks[b] = [kind |-> "para", lines |-> <<lines[i]>>]
    /\ pc = "done" =>
          /\ Len(elements) = Len(blocks)
          /\ \A b \in 1..Len(blocks) :
                /\ (elements[b].type = "table") = (blocks[b].kind = "table")
                /\ elements[b].type = "paragraph" =>
                      elements[b].text = ParagraphText(blocks[b].lines[1])
                /\ elements[b].type = "table" =>
                      Len(elements[b].rows) = Len(blocks[b].lines)

\* a single-run title line directly above a table, and a single-run line
\* ending a table
C9_Witness ==
    /\ pc = "done"
    /\ Len(lines) = 4
    /\ ShortLine(1) /\ ShortLine(4)
    /\ Len(elements) = 3
    /\ elements[1].type = "paragraph"
    /\ elements[1].text = <<"T", "O", "P">>
    /\ elements[2].type = "table"
    /\ elements[3].type = "paragraph"

-----------------------------------------------------------------------------

NonWhitespace(s) == SelectSeq(s, LAMBDA c : ~IsWhitespace(c))

CountOf(c, s) == Cardinality({i \in 1..Len(s) : s[i] = c})

\* all text of the input runs, markers excluded
InputChars == Flatten([k \in 1..Len(items) |->
                          IF items[k].hasType THEN <<>> ELSE items[k].str])

ElementChars(el) ==
    IF el.type = "paragraph" THEN el.text
    ELSE IF el.type = "table"
         THEN Flatten([r \in 1..Len(el.rows) |-> Flatten(el.rows[r])])
         ELSE <<>>

\* all text of the emitted paragraphs and table cells
OutputChars == Flatten([e \in 1..Len(elements) |-> ElementChars(elements[e])])

\* C10 (no phantom text): every non-whitespace character of the emitted
\* paragraphs and table cells occurs in the input runs, at most as often as
\* there, and whitespace is only what the runs hold plus one space per join.
C10_NoPhantomText ==
    pc = "done" =>
        /\ \A k \in 1..Len(OutputChars) :
              ~IsWhitespace(OutputChars[k]) =>
                  CountOf(OutputChars[k], OutputChars)
                      <= CountOf(OutputChars[k], InputChars)
        /\ Len(OutputChars) - Len(NonWhitespace(OutputChars))
              <= Len(InputChars) - Len(NonWhitespace(InputChars)) + Len(positioned)

\* a page emitted as a paragraph of two joined runs and a table
C10_Witness ==
    /\ pc = "done"
    /\ \E e \in 1..Len(elements) : elements[e].type = "table"
    /\ \E e \in 1..Len(elements) :
          /\ elements[e].type = "paragraph"
          /\ elements[e].text = <<"e", "1", " ", "e", "2">>

-----------------------------------------------------------------------------
(* groupIntoLines on free-standing runs                                    *)

Grouped == pc \in {"lines", "blocks", "done"} /\ Len(positioned) > 0

\* C11: every item of a line is within ROW_TOLERANCE of the line's y, and the
\* line's y is the smallest y among its items, whatever the input order.
C11_LineItemsWithinRowTolerance ==
    Grouped =>
        \A l \in 1..Len(lines) :
            /\ \A k \in 1..Len(lines[l].items) :
                  /\ Abs(lines[l].items[k].y - lines[l].y) <= ROW_TOLERANCE
                  /\ lines[l].y <= lines[l].items[k].y
            /\ \E k \in 1..Len(lines[l].items) : lines[l].items[k].y = lines[l].y

\* runs given bottom-up at three heights each less than ROW_TOLERANCE from the
\* next: the two upper ones share a line, the lowest is a line of its own
C11_Witness ==
    /\ Grouped
    /\ Len(positioned) = 3
    /\ positioned[1].y > positioned[2].y
    /\ positioned[2].y > positioned[3].y
    /\ positioned[1].y - positioned[3].y > ROW_TOLERANCE
    /\ Len(lines) = 2
    /\ Len(lines[1].items) = 2
    /\ Len(lines[2].items) = 1

\* C12: two runs with the same (x, y) are in the same line, the one that came
\* first in the input before the other.
C12_SamePlaceSameLineInInputOrder ==
    Grouped =>
        \A i \in 1..Len(positioned) : \A j \in 1..Len(positioned) :
            (i < j /\ positioned[i].x = positioned[j].x
                   /\ positioned[i].y = positioned[j].y)
            => \E l \in 1..Len(lines) :
                  \E p \in 1..Len(lines[l].items) : \E q \in 1..Len(lines[l].items) :
                      /\ p < q
                      /\ lines[l].items[p] = positioned[i]
                      /\ lines[l].items[q] = positioned[j]

\* two runs at the same place, with a run further left and lower on the page
\* given between them, all three in one line
C12_Witness ==
    /\ Grouped
    /\ Len(positioned) = 3
    /\ positioned[1].x = positioned[3].x
    /\ positioned[1].y = positioned[3].y
    /\ positioned[2].x < positioned[1].x
    /\ positioned[2].y > positioned[1].y
    /\ Len(lines) = 1
    /\ lines[1].items = <<positioned[2], positioned[1], positioned[3]>>

-----------------------------------------------------------------------------
(* The assembled output of processPdfClientSide                            *)

IsParagraph(el) == el.type = "paragraph"

\* C13: no Paragraph with empty text is ever in the assembled output, be it
\* of a digital page or of a scanned one.
C13_NoEmptyParagraph ==
    /\ \A e \in 1..Len(allElements) :
          IsParagraph(allElements[e]) => Len(allElements[e].text) > 0
    /\ \A e \in 1..Len(result.elements) :
          IsParagraph(result.elements[e]) => Len(result.elements[e].text) > 0

\* a document assembled from a digital page holding a whitespace-only run and
\* a scanned page whose OCR text holds an empty line
C13_Witness ==
    /\ result.some
    /\ \E n \in 1..Len(pdf) :
          /\ IsDigital(pdf[n])
          /\ \E k \in 1..Len(pdf[n].items) :
                ~pdf[n].items[k].hasType /\ Trim(pdf[n].items[k].str) = <<>>
    /\ \E n \in 1..Len(pdf) :
          /\ ~IsDigital(pdf[n])
          /\ \E k \in 1..Len(SplitLines(pdf[n].ocrText, <<>>)) :
                Trim(SplitLines(pdf[n].ocrText, <<>>)[k]) = <<>>
          /\ OcrLines(pdf[n].ocrText) # <<>>
    /\ \E e \in 1..Len(result.elements) : IsParagraph(result.elements[e])

\* the boundaries of the lines of a text: 0, the positions of its newlines,
\* and the position after its end
LineBoundaries(text) ==
    SelectSeq([i \in 1..(Len(text) + 2) |-> i - 1],
              LAMBDA b : b = 0 \/ b = Len(text) + 1 \/ text[b] = "\n")

\* the trimmed, non-empty lines of a text, in order
TrimmedLines(text) ==
    LET bs == LineBoundaries(text) IN
    SelectSeq([k \in 1..(Len(bs) - 1) |-> Trim(SubSeq(text, bs[k] + 1, bs[k + 1] - 1))],
              LAMBDA l : l # <<>>)

\* one Paragraph per trimmed line, its heading flag given by isHeadingText
ScannedParagraphs(text) ==
    [k \in 1..Len(TrimmedLines(text)) |->
        [type |-> "paragraph",
         text |-> TrimmedLines(text)[k],
         isHeading |-> IsHeadingText(TrimmedLines(text)[k])]]

\* the loop of processPdfClientSide stands after page pageNum - 1
AfterPageBody == hpc \in {"page", "finish", "save"} /\ pageNum > 1

\* C14: what a scanned page has added to allElements is one Paragraph per
\* non-empty trimmed line of its OCR text, in order, with the trimmed line as
\* text and isHeadingText of it as heading flag, and nothing else.
C14_ScannedPageParagraphs ==
    (AfterPageBody /\ ~IsDigital(pdf[pageNum - 1])) =>
        LET expected == ScannedParagraphs(pdf[pageNum - 1].ocrText)
            n == Len(allElements)
            m == Len(expected)
        IN /\ n >= m
           /\ SubSeq(allElements, n - m + 1, n) = expected
           /\ pageNum = 2 => n = m
           /\ pageNum > 2 => n > m /\ allElements[n - m].type = "pageBreak"

\* the page just recognized had OCR lines of 79 and 80 upper-case letters:
\* the first a heading, the second not
C14_Witness ==
    /\ AfterPageBody
    /\ ~IsDigital(pdf[pageNum - 1])
    /\ Len(allElements) >= 2
    /\ Len(allElements[Len(allElements) - 1].text) = HEADING_MAX_LEN - 1
    /\ allElements[Len(allElements) - 1].isHeading
    /\ Len(allElements[Len(allElements)].text) = HEADING_MAX_LEN
    /\ ~allElements[Len(allElements)].isHeading

\* the text of the glyph runs of a page, markers left out, nothing in between
RECURSIVE RunsText(_)
RunsText(its) ==
    IF its = <<>> THEN <<>>
    ELSE (IF Head(its).hasType THEN <<>> ELSE Head(its).str) \o RunsText(Tail(its))

DigitalByText(page) == Len(Trim(RunsText(page.items))) >= TEXT_THRESHOLD

\* the pages the loop has classified so far
Classified ==
    {n \in 1..Len(pdf) :
        \/ n < pageNum
        \/ n = pageNum /\ hpc \in {"createWorker", "recognize"}}

\* C17: a page goes to OCR only if its runs' text, stripped, has fewer than
\* TEXT_THRESHOLD characters, and OCR has been used exactly when such a page
\* has been reached.
C17_DigitalIffThresholdChars ==
    /\ hpc \in {"createWorker", "recognize"} => ~DigitalByText(pdf[pageNum])
    /\ hpc \in {"page", "createWorker", "recognize", "finish", "save"} =>
          (usedOcr <=> \E n \in Classified : ~DigitalByText(pdf[n]))

\* a page of exactly TEXT_THRESHOLD characters after stripping was taken as
\* digital, and the next, with one character less inside whitespace, is at OCR
C17_Witness ==
    /\ hpc = "recognize"
    /\ pageNum = 2
    /\ Len(Trim(RunsText(pdf[1].items))) = TEXT_THRESHOLD
    /\ Len(RunsText(pdf[1].items)) > TEXT_THRESHOLD
    /\ Len(Trim(RunsText(pdf[2].items))) = TEXT_THRESHOLD - 1
    /\ Len(RunsText(pdf[2].items)) > TEXT_THRESHOLD
    /\ Len(allElements) = 2
    /\ allElements[2].type = "pageBreak"

-----------------------------------------------------------------------------
(* The flat text of the assembled output                                   *)

PageBreakLine ==
    <<"-","-","-"," ","P","a","g","e"," ","B","r","e","a","k"," ","-","-","-">>

\* the cells of a row with one tab between neighbours
RECURSIVE TabSeparated(_)
TabSeparated(row) ==
    IF row = <<>> THEN <<>>
    ELSE IF Len(row) = 1 THEN row[1]
    ELSE TabSeparated(SubSeq(row, 1, Len(row) - 1)) \o <<"\t">> \o row[Len(row)]

\* the rows of a table with one newline between neighbours
RECURSIVE RowsRendered(_)
RowsRendered(rows) ==
    IF rows = <<>> THEN <<>>
    ELSE IF Len(rows) = 1 THEN TabSeparated(rows[1])
    ELSE RowsRendered(SubSeq(rows, 1, Len(rows) - 1)) \o <<"\n">>
         \o TabSeparated(rows[Len(rows)])

RenderedBlock(el) ==
    CASE el.type = "paragraph" -> el.text
      [] el.type = "pageBreak" -> PageBreakLine
      [] el.type = "table" -> RowsRendered(el.rows)

\* the blocks of the elements with one newline between neighbours
RECURSIVE Rendered(_)
Rendered(els) ==
    IF els = <<>> THEN <<>>
    ELSE IF Len(els) = 1 THEN RenderedBlock(els[1])
    ELSE Rendered(SubSeq(els, 1, Len(els) - 1)) \o <<"\n">>
         \o RenderedBlock(els[Len(els)])

\* C16: the text returned with the elements is their blocks in element order
\* with a single newline between neighbours, a Paragraph rendered as its
\* text, a PageBreak as the literal line, a Table as its rows joined by
\* newline with the cells of a row joined by one tab.
C16_TextIsBlocksJoinedByNewline ==
    result.some => result.text = Rendered(result.elements)

\* [Paragraph a, PageBreak, Paragraph b] has become a, the literal, b on three
\* lines
C16_Witness ==
    /\ result.some
    /\ Len(result.elements) = 3
    /\ IsParagraph(result.elements[1])
    /\ result.elements[2].type = "pageBreak"
    /\ IsParagraph(result.elements[3])
    /\ result.text = result.elements[1].text \o <<"\n">> \o PageBreakLine
                        \o <<"\n">> \o result.elements[3].text
    /\ Len(SplitLines(result.text, <<>>)) = 3

-----------------------------------------------------------------------------
(* One call of isHeadingText on a text inside whitespace                   *)

MaxPad == 2

Whitespace == {" ", "\n"}

\* the whitespace strings of up to MaxPad characters
Pads == UNION {[1..n -> Whitespace] : n \in 0..MaxPad}

Letters(c, n) == [i \in 1..n |-> c]

HeadingBodies ==
    {<<>>, <<"A">>, <<"a">>, <<"1">>, <<"A", "b">>, <<"A", "1">>, <<"A", " ", "B">>,
     Letters("X", HEADING_MAX_LEN - 2), Letters("X", HEADING_MAX_LEN - 1),
     Letters("X", HEADING_MAX_LEN), Letters("x", HEADING_MAX_LEN - 1),
     Letters("1", HEADING_MAX_LEN - 1)}

HeadingInit ==
    /\ LayoutIdle
    /\ ConvIdle
    /\ EdgeIdle
    /\ \E pre \in Pads : \E body \in HeadingBodies : \E post \in Pads :
          headingText = pre \o body \o post
    /\ headingResult = FALSE
    /\ headingPc = "start"

\* isHeadingText(text)
CallIsHeadingText ==
    /\ headingPc = "start"
    /\ headingResult' = IsHeadingText(headingText)
    /\ headingPc' = "done"
    /\ UNCHANGED headingText
    /\ UNCHANGED layoutVars
    /\ UNCHANGED convVars
    /\ UNCHANGED pageVars
    /\ UNCHANGED edgeVars

HeadingNext == CallIsHeadingText

HeadingSpec == HeadingInit /\ [][HeadingNext]_vars

\* C15: isHeadingText gives a text the answer it gives the trimmed text.
C15_HeadingInvariantUnderTrim ==
    headingPc = "done" => headingResult = IsHeadingText(Trim(headingText))

\* a heading of HEADING_MAX_LEN - 1 letters which with its surrounding
\* whitespace is longer than HEADING_MAX_LEN
C15_Witness ==
    /\ headingPc = "done"
    /\ headingResult
    /\ Len(Trim(headingText)) = HEADING_MAX_LEN - 1
    /\ Len(headingText) > HEADING_MAX_LEN
    /\ headingText[1] = "\n"

-----------------------------------------------------------------------------
(* tryExtractTable: the lines accepted after the first                     *)

\* colBuckets as it stands once lines 1..k of a table block were accepted
RECURSIVE BucketsAfter(_, _)
BucketsAfter(ls, k) ==
    IF k = 1 THEN mergeColumnBuckets(LineXs(ls[1]))
    ELSE mergeColumnBuckets(BucketsAfter(ls, k - 1) \o LineXs(ls[k]))

WithinABucket(x, colBuckets) ==
    \E b \in 1..Len(colBuckets) : Abs(x - colBuckets[b]) <= COL_TOLERANCE

\* C18: every line of a table block after its first has all its items within
\* COL_TOLERANCE of a column bucket that existed when the line was looked at,
\* and at least MIN_TABLE_COLS of them.
C18_EveryItemOfLaterLineInABucket ==
    pc \in {"blocks", "done"} =>
        \A b \in 1..Len(blocks) :
            blocks[b].kind = "table" =>
                \A k \in 2..Len(blocks[b].lines) :
                    LET xs == LineXs(blocks[b].lines[k])
                        colBuckets == BucketsAfter(blocks[b].lines, k - 1)
                    IN /\ Len(xs) >= MIN_TABLE_COLS
                       /\ \A i \in 1..Len(xs) : WithinABucket(xs[i], colBuckets)

-----------------------------------------------------------------------------
(* mergeColumnBuckets on the lists the parser hands it                     *)

\* block.lines.flatMap((l) => l.items.map((it) => it.x))
AllXs(block) == Flatten([l \in 1..Len(block.lines) |-> LineXs(block.lines[l])])

\* the x of the runs in input order, the x of each line, the x of each table
MergedLists ==
    {[k \in 1..Len(positioned) |-> positioned[k].x]}
    \cup {LineXs(lines[l]) : l \in 1..Len(lines)}
    \cup {AllXs(blocks[b]) : b \in {c \in 1..Len(blocks) : blocks[c].kind = "table"}}

AnchorsWellFormed(xs, anchors) ==
    /\ \A a \in 1..Len(anchors) : \E k \in 1..Len(xs) : xs[k] = anchors[a]
    /\ \A a \in 1..(Len(anchors) - 1) : anchors[a + 1] - anchors[a] > COL_TOLERANCE
    /\ xs # <<>> => /\ Len(anchors) >= 1
                    /\ \A k \in 1..Len(xs) : anchors[1] <= xs[k]
    /\ \A k \in 1..Len(xs) :
          \E a \in 1..Len(anchors) :
              anchors[a] <= xs[k] /\ xs[k] <= anchors[a] + COL_TOLERANCE

\* C19: the anchors returned for a list of x are elements of the list,
\* strictly ascending and more than COL_TOLERANCE apart, the first is the
\* least x, every x is in [anchor, anchor + COL_TOLERANCE] of some anchor, and
\* the anchors of the anchors are the anchors.
C19_AnchorsOfBuckets ==
    pc \in {"positioned", "lines", "blocks", "done"} =>
        \A xs \in MergedLists :
            /\ AnchorsWellFormed(xs, mergeColumnBuckets(xs))
            /\ mergeColumnBuckets(mergeColumnBuckets(xs)) = mergeColumnBuckets(xs)

\* runs given right to left at 46, 28 and 10: 28 is one COL_TOLERANCE from 10
\* and from 46, and the anchors are 10 and 46
C19_Witness ==
    /\ pc = "done"
    /\ [k \in 1..Len(positioned) |-> positioned[k].x] = <<46, 28, 10>>
    /\ mergeColumnBuckets(<<46, 28, 10>>) = <<10, 46>>

-----------------------------------------------------------------------------
(* tableBlockToElement: the cell of each run                               *)

\* the lowest index among the anchors nearest to x
NearestAnchor(x, anchors) ==
    CHOOSE j \in 1..Len(anchors) :
        /\ \A k \in 1..Len(anchors) : Abs(x - anchors[j]) <= Abs(x - anchors[k])
        /\ \A k \in 1..(j - 1) : Abs(x - anchors[k]) > Abs(x - anchors[j])

\* the texts of the runs of a line that belong to column j, left to right,
\* with one space between neighbours
CellText(line, j, anchors) ==
    Join([k \in 1..Len(SelectSeq(line.items,
                                 LAMBDA it : NearestAnchor(it.x, anchors) = j)) |->
             SelectSeq(line.items,
                       LAMBDA it : NearestAnchor(it.x, anchors) = j)[k].str],
         <<" ">>)

\* C20: in every emitted table each run is in the column of the anchor
\* nearest to its x, the lower one of two equally near, and a cell holds the
\* texts of its runs left to right with one space between them.
C20_RunsInNearestColumn ==
    pc = "done" =>
        /\ Len(elements) = Len(blocks)
        /\ \A b \in 1..Len(blocks) :
              blocks[b].kind = "table" =>
                  LET anchors == mergeColumnBuckets(AllXs(blocks[b])) IN
                  /\ elements[b].type = "table"
                  /\ elements[b].colCount = Len(anchors)
                  /\ Len(elements[b].rows) = Len(blocks[b].lines)
                  /\ \A r \in 1..Len(blocks[b].lines) : \A j \in 1..Len(anchors) :
                        elements[b].rows[r][j] = CellText(blocks[b].lines[r], j, anchors)

\* a table with anchors 10 and 46 whose second line has runs at 10 and 28:
\* the run at 28 is as near to 46 as to 10 and shares the first cell
C20_Witness ==
    /\ pc = "done"
    /\ Len(blocks) = 1
    /\ blocks[1].kind = "table"
    /\ mergeColumnBuckets(AllXs(blocks[1])) = <<10, 46>>
    /\ LineXs(blocks[1].lines[2]) = <<10, 28>>
    /\ Len(elements[1].rows[2][1]) = 3
    /\ elements[1].rows[2][2] = <<>>

-----------------------------------------------------------------------------
(* The process-pdf edge function (supabase/functions/process-pdf/index.ts), *)
(* one POST request.  supabase-js resolves an update to { data, error } and *)
(* does not throw; the handler never looks at error, so an update that     *)
(* fails leaves the row as it was and the handler goes on.                 *)

MaxNumPages == 2

EdgeTexts == {<<>>, <<" ">>, <<"t">>, <<" ", "t", "\n">>}

EdgeInit ==
    /\ LayoutIdle
    /\ ConvIdle
    /\ HeadingIdle
    /\ req \in [json : BOOLEAN, fileUrl : BOOLEAN, conversionId : BOOLEAN]
    /\ ~req.json => ~req.fileUrl /\ ~req.conversionId
    /\ bodyUsed = FALSE
    /\ pdfFile \in [downloadOk : BOOLEAN, parses : BOOLEAN, text : EdgeTexts,
                    numpages : 0..MaxNumPages]
    /\ epc = "start"
    /\ edgeError = ""
    /\ edgeRow = NewConversion
    /\ edgeUpdates = <<>>
    /\ response = NoResponse

\* supabase.from('conversions').update(update).eq('id', conversionId)
EdgeUpdate(update, ok) ==
    /\ edgeUpdates' = Append(edgeUpdates, [status |-> update.status, ok |-> ok])
    /\ edgeRow' = IF ok THEN ApplyUpdate(edgeRow, update) ELSE edgeRow

\* throw inside the try block
EdgeThrow(msg) ==
    /\ edgeError' = msg
    /\ epc' = "catch"

\* await req.json() and the test of the two fields
ParseRequest ==
    /\ epc = "start"
    /\ bodyUsed' = TRUE
    /\ IF ~req.json
       THEN /\ EdgeThrow("Unexpected token")
            /\ UNCHANGED response
       ELSE IF ~req.fileUrl \/ ~req.conversionId
       THEN /\ response' = [status |-> 400, success |-> "none"]
            /\ epc' = "responded"
            /\ UNCHANGED edgeError
       ELSE /\ epc' = "markProcessing"
            /\ UNCHANGED <<edgeError, response>>
    /\ UNCHANGED <<req, pdfFile, edgeRow, edgeUpdates>>
    /\ UNCHANGED layoutVars
    /\ UNCHANGED convVars
    /\ UNCHANGED pageVars
    /\ UNCHANGED headingVars

\* await supabase ... update({ status: 'processing' })
EdgeMarkProcessing ==
    /\ epc = "markProcessing"
    /\ \E ok \in BOOLEAN : EdgeUpdate(ProcessingUpdate, ok)
    /\ epc' = "download"
    /\ UNCHANGED <<req, bodyUsed, pdfFile, edgeError, response>>
    /\ UNCHANGED layoutVars
    /\ UNCHANGED convVars
    /\ UNCHANGED pageVars
    /\ UNCHANGED headingVars

\* await fetch(fileUrl); if (!pdfResponse.ok) throw
DownloadPdf ==
    /\ epc = "download"
    /\ IF pdfFile.downloadOk
       THEN epc' = "parse" /\ UNCHANGED edgeError
       ELSE EdgeThrow("Failed to download PDF")
    /\ UNCHANGED <<req, bodyUsed, pdfFile, edgeRow, edgeUpdates, response>>
    /\ UNCHANGED layoutVars
    /\ UNCHANGED convVars
    /\ UNCHANGED pageVars
    /\ UNCHANGED headingVars

\* await pdf(Buffer.from(pdfBuffer)); data.text?.trim(); throw if empty
ParsePdf ==
    /\ epc = "parse"
    /\ IF ~pdfFile.parses
       THEN EdgeThrow("Invalid PDF structure")
       ELSE IF Trim(pdfFile.text) = <<>>
       THEN EdgeThrow("No text could be extracted")
       ELSE epc' = "complete" /\ UNCHANGED edgeError
    /\ UNCHANGED <<req, bodyUsed, pdfFile, edgeRow, edgeUpdates, response>>
    /\ UNCHANGED layoutVars
    /\ UNCHANGED convVars
    /\ UNCHANGED pageVars
    /\ UNCHANGED headingVars

\* without the fallback: data.numpages
EdgePageCountRaw == pdfFile.numpages

\* const pageCount = data.numpages || 1
EdgePageCount == IF pdfFile.numpages = 0 THEN 1 ELSE pdfFile.numpages

\* the update of the record to completed, and the 200 response
EdgeComplete ==
    /\ epc = "complete"
    /\ \E ok \in BOOLEAN :
          EdgeUpdate([status |-> "completed",
                      extracted_text |-> Some(Trim(pdfFile.text)),
                      page_count |-> Some(EdgePageCount),
                      error_message |-> Null], ok)
    /\ response' = [status |-> 200, success |-> TRUE]
    /\ epc' = "responded"
    /\ UNCHANGED <<req, bodyUsed, pdfFile, edgeError>>
    /\ UNCHANGED layoutVars
    /\ UNCHANGED convVars
    /\ UNCHANGED pageVars
    /\ UNCHANGED headingVars

\* req.clone() throws a TypeError once the body of req has been read
CloneThrows == bodyUsed

\* the catch block: the inner try that is to mark the record failed, whose
\* own errors are swallowed, and the 500 response
EdgeCatch ==
    /\ epc = "catch"
    /\ IF ~CloneThrows /\ req.json /\ req.conversionId
       THEN \E ok \in BOOLEAN :
               EdgeUpdate([status |-> "failed", extracted_text |-> Null,
                           page_count |-> Null,
                           error_message |-> Some(edgeError)], ok)
       ELSE UNCHANGED <<edgeRow, edgeUpdates>>
    /\ response' = [status |-> 500, success |-> FALSE]
    /\ epc' = "responded"
    /\ UNCHANGED <<req, bodyUsed, pdfFile, edgeError>>
    /\ UNCHANGED layoutVars
    /\ UNCHANGED convVars
    /\ UNCHANGED pageVars
    /\ UNCHANGED headingVars

EdgeNext ==
    \/ ParseRequest
    \/ EdgeMarkProcessing
    \/ DownloadPdf
    \/ ParsePdf
    \/ EdgeComplete
    \/ EdgeCatch

EdgeSpec == EdgeInit /\ [][EdgeNext]_vars

\* the request was accepted: it carried both fields
Accepted == req.json /\ req.fileUrl /\ req.conversionId

\* C21 as claimed: when a step after the request was accepted has failed, the
\* record is in status failed with the error message, the response is 500
\* with success = false, and the record is not left in status processing.
C21_FailedRequestMarksRecordFailed ==
    (epc = "responded" /\ Accepted /\ edgeError # "") =>
        /\ response = [status |-> 500, success |-> FALSE]
        /\ edgeRow.status = "failed"
        /\ edgeRow.error_message = Some(edgeError)
        /\ edgeRow.status # "processing"

\* position of the first update of a status among the updates sent, 0 if none
FirstSent(status) ==
    IF \E i \in 1..Len(edgeUpdates) : edgeUpdates[i].status = status
    THEN CHOOSE i \in 1..Len(edgeUpdates) :
            /\ edgeUpdates[i].status = status
            /\ \A j \in 1..(i - 1) : edgeUpdates[j].status # status
    ELSE 0

-----------------------------------------------------------------------------
(* buildDocElements: where the text of the runs goes                       *)

\* the text of the runs in reading order: line by line from the top, within
\* a line from the left
ReadingOrderChars ==
    Flatten([l \in 1..Len(lines) |->
                Flatten([k \in 1..Len(lines[l].items) |-> lines[l].items[k].str])])

\* C23: the visible characters of the emitted paragraphs and table cells,
\* read element by element, row by row and cell by cell, are those of the
\* surviving runs read line by line from the top: every run's text is there
\* exactly once, none is lost or repeated, and the elements follow the lines.
C23_EveryRunEmittedOnceInLineOrder ==
    pc = "done" =>
        /\ NonWhitespace(OutputChars) = NonWhitespace(ReadingOrderChars)
        /\ \A k \in 1..Len(positioned) :
              \A c \in 1..Len(positioned[k].str) :
                  ~IsWhitespace(positioned[k].str[c]) =>
                      CountOf(positioned[k].str[c], OutputChars)
                          = CountOf(positioned[k].str[c], InputChars)

\* four runs given from the bottom up have become one table whose second row
\* holds two of them in one cell
C23_Witness ==
    /\ pc = "done"
    /\ Len(positioned) = 4
    /\ positioned[1].y > positioned[4].y
    /\ Len(elements) = 1
    /\ elements[1].type = "table"
    /\ Len(elements[1].rows) = 2
    /\ \E j \in 1..elements[1].colCount : Len(elements[1].rows[2][j]) = 3
    /\ Len(NonWhitespace(OutputChars)) = 4

-----------------------------------------------------------------------------
(* The page-break sentinel in the plain text                               *)

\* the lines of the text that equal the sentinel, as buildFallbackChildren
\* tests them: line.trim() === "--- Page Break ---"
SentinelLines(text) ==
    {k \in 1..Len(SplitLines(text, <<>>)) :
        Trim(SplitLines(text, <<>>)[k]) = ElementText(PageBreak)}

\* C24: in the text of a result the lines equal to "--- Page Break ---" are
\* as many as the PageBreak elements of its element list: no paragraph and no
\* table row renders as the sentinel.
C24_SentinelLinesArePageBreaks ==
    result.some =>
        Cardinality(SentinelLines(result.text)) = CountPageBreaks(result.elements)

-----------------------------------------------------------------------------
(* The OCR worker of one processPdfClientSide call                         *)

\* the call of processPdfClientSide has ended, by a return or by a throw
CallEnded == hpc \in {"save", "done"}

SomePageScanned == \E k \in 1..Len(pdf) : ~IsDigital(pdf[k])

\* a worker is created only while there is none, never after one was created
WorkerCreatedAtMostOnce ==
    (tesseractWorker' = "live" /\ tesseractWorker # "live")
        => tesseractWorker = "null"

UsedOcrIffScanned == result.some => (result.usedOcr <=> SomePageScanned)

WorkerNotLeftLive == CallEnded => tesseractWorker # "live"

\* C25: in one call of processPdfClientSide a worker is created at most
\* once, usedOcr is true exactly when a page was classified scanned, and a
\* created worker is terminated when the call ends, by return or by throw.
C25_WorkerCreatedOnceAndTerminated ==
    /\ [][WorkerCreatedAtMostOnce]_vars
    /\ [](UsedOcrIffScanned /\ WorkerNotLeftLive)

-----------------------------------------------------------------------------
(* The progress events of one call                                         *)

Stage(i) == progress[i].stage

ExtractingUpTo(i) == {j \in 1..i : Stage(j) = "extracting"}

\* loading first and only first, at 0; done last and only last, at 100; the
\* k-th extracting event is for page k; an ocr event follows the extracting
\* event of its page at once; percentages never go down
ProgressShape ==
    /\ \A i \in 1..Len(progress) :
          /\ (Stage(i) = "loading") <=> (i = 1)
          /\ Stage(i) = "loading" => progress[i].percentage = 0
          /\ Stage(i) = "done" => i = Len(progress) /\ progress[i].percentage = 100
          /\ Stage(i) = "extracting" =>
                progress[i].page = Cardinality(ExtractingUpTo(i))
          /\ Stage(i) = "ocr" =>
                /\ i > 1
                /\ Stage(i - 1) = "extracting"
                /\ progress[i - 1].page = progress[i].page
          /\ Stage(i) \in {"loading", "extracting", "ocr", "done"}
    /\ \A i \in 1..(Len(progress) - 1) :
          progress[i].percentage <= progress[i + 1].percentage

DoneReported == \E i \in 1..Len(progress) : Stage(i) = "done"

\* every page was read and, if scanned, recognized
EveryPageProcessed ==
    /\ pageNum = Len(pdf) + 1
    /\ Cardinality(ExtractingUpTo(Len(progress))) = Len(pdf)
    /\ \A k \in 1..Len(pdf) :
          ~IsDigital(pdf[k]) =>
              \E i \in 1..Len(progress) : Stage(i) = "ocr" /\ progress[i].page = k

\* C26: the events of one call are a loading event at 0, then for the pages
\* in ascending order an extracting event and possibly an ocr event for the
\* same page, then one done event at 100; percentages never decrease; done
\* is reported only when every page was processed, and a call that returns
\* has reported it.
C26_ProgressSequence ==
    /\ ProgressShape
    /\ DoneReported => EveryPageProcessed
    /\ result.some => DoneReported

C26_Witness ==
    /\ result.some
    /\ Len(pdf) = 3
    /\ IsDigital(pdf[1]) /\ ~IsDigital(pdf[2]) /\ ~IsDigital(pdf[3])
    /\ Len(progress) = 7
    /\ progress[3].percentage = 33
    /\ progress[5].percentage = 67
    /\ Stage(6) = "ocr"

-----------------------------------------------------------------------------
(* The status shown by the page                                            *)

StatusMove == <<currentStatus, currentStatus'>>

\* the moves of the chain idle, pending, processing, completed or failed
ChainMoves ==
    {<<"null", "pending">>, <<"pending", "processing">>,
     <<"processing", "completed">>, <<"processing", "failed">>,
     <<"completed", "null">>, <<"failed", "null">>}

\* the status becomes idle again by handleReset only
IdleByResetOnly ==
    (currentStatus # "null" /\ currentStatus' = "null") => HandleReset

ProcessingWhileInFlight ==
    currentStatus \in {"pending", "processing"} => isProcessing

TextOnlyWhileCompleted == extractedText.some => currentStatus = "completed"

\* a call of handleFileSelect is past its size test and has not ended
Started == ~NoCallRunning

Ended == currentStatus \in {"completed", "failed"} /\ ~isProcessing

\* C27 as claimed: the status moves along idle, pending, processing,
\* completed or failed only, failed being entered from processing.
C27_StatusFollowsChain ==
    /\ [][currentStatus' # currentStatus => StatusMove \in ChainMoves]_vars
    /\ [][IdleByResetOnly]_vars
    /\ [](ProcessingWhileInFlight /\ TextOnlyWhileCompleted)
    /\ (Started ~> Ended)

\* C27: the status moves idle to pending, pending to processing or failed,
\* processing to completed or failed, and back to idle by reset only; a
\* started handleFileSelect reaches completed or failed with isProcessing
\* cleared; isProcessing holds during pending and processing; extractedText
\* is non-null only while the status is completed.
C27_StatusFollowsChainOrFailsEarly ==
    /\ [][currentStatus' # currentStatus =>
             StatusMove \in ChainMoves \cup {<<"pending", "failed">>}]_vars
    /\ [][IdleByResetOnly]_vars
    /\ [](ProcessingWhileInFlight /\ TextOnlyWhileCompleted)
    /\ (Started ~> Ended)

\* a conversion failed while pending, before its record was created
C27_Witness ==
    /\ currentStatus = "failed"
    /\ conversion = NoConversion
    /\ ~isProcessing
    /\ hpc = "done"

-----------------------------------------------------------------------------
(* Download .docx                                                          *)

\* C28: every click on Download, which is offered whenever the status is
\* completed, calls generateWordDocument, also when the extracted text is
\* the empty string.
C28_EveryDownloadCallsGenerate == wordCalls = downloadClicks

-----------------------------------------------------------------------------
(* The files FileDropZone and handleFileSelect let through                 *)

Acceptable(f) == f.type = "application/pdf" /\ f.size <= MAX_FILE_SIZE

\* the step in which FileDropZone selects the file and calls onFileSelect
OnFileSelectCalled == selectedFile'.some /\ ~selectedFile.some

\* the step in which FileDropZone sets an error message
FileRejected == sizeError' # "null" /\ sizeError' # sizeError

NothingStarted ==
    UNCHANGED <<hpc, isProcessing, currentStatus, currentFilename, conversion,
                extractedText, progress>>

\* a file above the limit never gets a conversion under way
OversizeStartsNothing ==
    file.size > MAX_FILE_SIZE =>
        /\ hpc \in {"idle", "returned"}
        /\ currentStatus = "null"
        /\ ~isProcessing
        /\ conversion = NoConversion

\* C29: FileDropZone calls onFileSelect only for a file of type
\* application/pdf of at most MAX_FILE_SIZE bytes; a file it rejects sets an
\* error message, leaves the selected file as it was and starts no
\* conversion; handleFileSelect starts nothing for a larger file.
C29_OnlyAcceptableFilesStartAConversion ==
    /\ [][OnFileSelectCalled => Acceptable(file)]_vars
    /\ [][(ValidateAndSelect /\ ~Acceptable(file)) => sizeError' # "null"]_vars
    /\ [][FileRejected => (selectedFile' = selectedFile /\ NothingStarted)]_vars
    /\ [](selectedFile.some => Acceptable(selectedFile))
    /\ []OversizeStartsNothing

\* a PDF one byte above the limit was dropped and rejected, and
\* handleFileSelect, called with it, returned at once
C29_Witness ==
    /\ file.type = "application/pdf"
    /\ file.size = MAX_FILE_SIZE + 1
    /\ sizeError # "null"
    /\ selectedFile = NoSelectedFile
    /\ hpc = "returned"

====
